---- MODULE Spec2Model ----
(***************************************************************************)
(* A model of src/app/main.py, the Streamlit dashboard "FMCG Supply Chain  *)
(* & Inventory Optimization": the CSV store with its two memoised loaders, *)
(* the sidebar filters, the four data-bearing pages, the upload handler    *)
(* and the script run (main) that strings them together.                   *)
(*                                                                         *)
(* A DataFrame is a record [columns, rows]: the ordered column names and   *)
(* the rows, each a function from column name to cell.  A cell is a tagged *)
(* record, so that cells of different Python types can be compared:        *)
(*   [str |-> s]    a str                                                  *)
(*   [text |-> cs]  a str kept as its sequence of characters (the urgency  *)
(*                  column, whose characters urgency_label inspects)       *)
(*   [num |-> n]    a number                                               *)
(*   [ts |-> d]     a pandas Timestamp, d the day's ordinal                *)
(*   [nan |-> TRUE] NaN / NaT, [none |-> TRUE] Python's None               *)
(*   [label |-> l]  a display label produced by urgency_label              *)
(***************************************************************************)
EXTENDS Integers, Sequences, FiniteSets, TLC

VARIABLES
    files,          \* DATA_DIR: dataset name -> its CSV file, or Absent
    cache,          \* st.cache_data's memo of load_csv and of get_all_data
    data,           \* main's `data`, the dict get_all_data returned in this run
    pc,             \* the call of main about to run (0: no run in progress)
    done,           \* the calls of main that returned in this run
    page,           \* the page the radio holds
    sel,            \* selected_skus, selected_suppliers, date_range
    uploads,        \* what each file_uploader returned in this run
    upload_status,  \* per slot: none, not_reached, saved, exception
    screen,         \* what the run drew, and the exception that ended it
    filesAtStart,   \* history: the files when the run began
    nUploads,       \* history: files offered to the uploaders so far
    val,            \* urgency_label's argument
    label           \* urgency_label's result

vars == <<files, cache, data, pc, done, page, sel, uploads, upload_status,
          screen, filesAtStart, nUploads, val, label>>

(***************************************************************************)
(* Cells                                                                   *)
(***************************************************************************)
Str(s) == [str |-> s]
Text(cs) == [text |-> cs]
Num(n) == [num |-> n]
Ts(d) == [ts |-> d]
NaN == [nan |-> TRUE]
None == [none |-> TRUE]

IsNaN(c) == c = NaN
IsNum(c) == "num" \in DOMAIN c

Range(s) == {s[i] : i \in DOMAIN s}

\* Every str the model's tables hold, in Python's (code point) order.
Lexicon == <<"2024-01-01", "2024-01-02", "2024-01-03", "A", "B", "C", "S1", "S2">>

\* The ISO dates pd.to_datetime is given, in calendar order: the position of a
\* date is its day ordinal.
DateStr == <<"2024-01-01", "2024-01-02", "2024-01-03">>

Days == DOMAIN DateStr

Ord(s) == CHOOSE i \in DOMAIN Lexicon : Lexicon[i] = s

\* The sort key of a cell within its column; NaN and NaT sort last.
CellKey(c) ==
    IF "str" \in DOMAIN c THEN Ord(c.str)
    ELSE IF "num" \in DOMAIN c THEN c.num
    ELSE IF "ts" \in DOMAIN c THEN c.ts
    ELSE IF "label" \in DOMAIN c THEN c.label.marker
    ELSE 1000000

(***************************************************************************)
(* DataFrames                                                              *)
(***************************************************************************)
\* pd.DataFrame(): no columns, no rows.
EmptyDataFrame == [columns |-> <<>>, rows |-> <<>>]

\* DataFrame.empty: any axis of length 0.
empty(df) == Len(df.columns) = 0 \/ Len(df.rows) = 0

HasColumn(df, c) == c \in Range(df.columns)

\* df.get(c, default).dropna().unique() as a set; the default is an empty Series.
ColumnValues(df, c) ==
    IF HasColumn(df, c)
      THEN {df.rows[i][c] : i \in DOMAIN df.rows} \ {NaN}
      ELSE {}

\* df[mask]: the rows the mask keeps, in their order.
FilterRows(df, Keep(_)) == [df EXCEPT !.rows = SelectSeq(df.rows, Keep)]

\* sorted(...) of a set of cells.
RECURSIVE SortCells(_)
SortCells(S) ==
    IF S = {} THEN <<>>
    ELSE LET m == CHOOSE x \in S : \A y \in S : CellKey(x) <= CellKey(y)
         IN  <<m>> \o SortCells(S \ {m})

\* r1 before r2 on the keys, compared in turn.
RECURSIVE RowLess(_, _, _)
RowLess(r1, r2, keys) ==
    IF keys = <<>> THEN FALSE
    ELSE LET k == Head(keys)
         IN  \/ CellKey(r1[k]) < CellKey(r2[k])
             \/ /\ CellKey(r1[k]) = CellKey(r2[k])
                /\ RowLess(r1, r2, Tail(keys))

\* Insert r after the rows that do not come after it: a stable insertion.
RECURSIVE InsertRow(_, _, _)
InsertRow(r, sorted, keys) ==
    IF sorted = <<>> THEN <<r>>
    ELSE IF RowLess(r, Head(sorted), keys) THEN <<r>> \o sorted
    ELSE <<Head(sorted)>> \o InsertRow(r, Tail(sorted), keys)

\* DataFrame.sort_values([k1, k2]) on several keys: pandas' lexsort, stable.
RECURSIVE SortRows(_, _)
SortRows(rows, keys) ==
    IF rows = <<>> THEN <<>>
    ELSE InsertRow(rows[Len(rows)], SortRows(SubSeq(rows, 1, Len(rows) - 1), keys), keys)

RECURSIVE SumNums(_)
SumNums(cells) ==
    IF cells = <<>> THEN 0
    ELSE (IF IsNum(Head(cells)) THEN Head(cells).num ELSE 0) + SumNums(Tail(cells))

\* df.groupby(key, as_index=False)[metric].sum(): one row per non-NaN key, keys
\* ascending, the metric summed with NaN skipped.
groupby_sum(df, key, metric) ==
    LET keys == SortCells(ColumnValues(df, key))
        Of(k) == SelectSeq(df.rows, LAMBDA r : r[key] = k)
    IN  [i \in DOMAIN keys |->
            (key :> keys[i]) @@
            (metric :> Num(SumNums([j \in DOMAIN Of(keys[i]) |-> Of(keys[i])[j][metric]])))]

\* DataFrame.sort_values(metric, ascending=False) on one key.  The call leaves
\* kind at its default, "quicksort", which pandas documents as not stable: the
\* result is some arrangement of the rows with the metric non-increasing, and
\* rows that tie come in an order the build (numpy's sort kernels) decides.
sort_values_desc(rows, metric) ==
    {p \in [DOMAIN rows -> Range(rows)] :
        /\ \A i, j \in DOMAIN rows : i # j => p[i] # p[j]
        /\ \A i, j \in DOMAIN rows :
              i < j => CellKey(p[i][metric]) >= CellKey(p[j][metric])}

\* DataFrame.head(n)
head(rows, n) == SubSeq(rows, 1, IF Len(rows) < n THEN Len(rows) ELSE n)

\* pd.to_datetime on one value of a date column read from CSV.
ParseDate(s) == CHOOSE d \in Days : DateStr[d] = s

to_datetime(c) ==
    IF "str" \in DOMAIN c THEN Ts(ParseDate(c.str)) ELSE c

(***************************************************************************)
(* CSV files                                                               *)
(*                                                                         *)
(* The bytes of a CSV file are its lines, each the sequence of its fields; *)
(* the first line is the header.  A file of the store is Absent or holds   *)
(* such lines.                                                             *)
(***************************************************************************)
Absent == [exists |-> FALSE, lines |-> <<>>]

File(lines) == [exists |-> TRUE, lines |-> lines]

\* pd.read_csv.  No header line raises EmptyDataError.  The width of the file is
\* the header's, or the first data line's when that is longer: its leading extra
\* fields are then the index, which to_csv(index=False) does not write.  A data
\* line wider than the file raises ParserError ("Expected n fields, saw m"); a
\* narrower one is padded with NaN.
read_csv(lines) ==
    IF Len(lines) = 0 THEN [ok |-> FALSE, error |-> "EmptyDataError", df |-> EmptyDataFrame]
    ELSE LET header == lines[1]
             body == Tail(lines)
             width == IF Len(body) > 0 /\ Len(body[1]) > Len(header)
                        THEN Len(body[1]) ELSE Len(header)
             index == width - Len(header)
         IN  IF \E i \in DOMAIN body : Len(body[i]) > width
               THEN [ok |-> FALSE, error |-> "ParserError", df |-> EmptyDataFrame]
               ELSE [ok |-> TRUE, error |-> "",
                     df |-> [columns |-> header,
                             rows |-> [i \in DOMAIN body |->
                                 [c \in Range(header) |->
                                     LET j == index + CHOOSE k \in DOMAIN header : header[k] = c
                                     IN  IF j <= Len(body[i]) THEN body[i][j] ELSE NaN]]]]

\* DataFrame.to_csv(path, index=False): the header, then one full line per row.
to_csv(df) ==
    <<df.columns>> \o
    [i \in DOMAIN df.rows |-> [j \in DOMAIN df.columns |-> df.rows[i][df.columns[j]]]]

\* The keys of get_all_data's dict, in its order; the file of key k is k.csv.
Names == <<"kpis", "forecast", "recommendations", "sales", "inventory",
           "procurement", "logistics">>

NameSet == Range(Names)

\* load_csv without its path.exists() test: reading the absent file raises.
read_path_no_exists(f) ==
    IF ~f.exists THEN [ok |-> FALSE, error |-> "FileNotFoundError", df |-> EmptyDataFrame]
    ELSE read_csv(f.lines)

\* The body of load_csv: an absent file is an empty DataFrame, not an error.
read_path(f) ==
    IF ~f.exists THEN [ok |-> TRUE, error |-> "", df |-> EmptyDataFrame]
    ELSE read_csv(f.lines)

\* @st.cache_data: nothing memoised.
EmptyCache == [load_csv |-> <<>>, get_all_data |-> <<>>]

\* load_csv under @st.cache_data: a memoised result is returned without touching
\* the file; a computed one is memoised (an exception is not).
load_csv(c, fs, name) ==
    IF name \in DOMAIN c.load_csv
      THEN [ok |-> TRUE, error |-> "", df |-> c.load_csv[name], cache |-> c]
      ELSE LET r == read_path(fs[name])
           IN  IF r.ok
                 THEN [ok |-> TRUE, error |-> "", df |-> r.df,
                       cache |-> [c EXCEPT !.load_csv = (name :> r.df) @@ c.load_csv]]
                 ELSE [ok |-> FALSE, error |-> r.error, df |-> r.df, cache |-> c]

\* The dict literal of get_all_data, built key by key.
RECURSIVE LoadEach(_, _, _, _)
LoadEach(c, fs, i, acc) ==
    IF i > Len(Names) THEN [ok |-> TRUE, error |-> "", dict |-> acc, cache |-> c]
    ELSE LET r == load_csv(c, fs, Names[i])
         IN  IF r.ok THEN LoadEach(r.cache, fs, i + 1, (Names[i] :> r.df) @@ acc)
             ELSE [ok |-> FALSE, error |-> r.error, dict |-> acc, cache |-> r.cache]

\* get_all_data under @st.cache_data.
get_all_data(c, fs) ==
    IF Len(c.get_all_data) > 0
      THEN [ok |-> TRUE, error |-> "", dict |-> c.get_all_data[1], cache |-> c]
      ELSE LET r == LoadEach(c, fs, 1, <<>>)
           IN  IF r.ok THEN [r EXCEPT !.cache.get_all_data = <<r.dict>>] ELSE r

\* Only load_csv's memo cleared: get_all_data keeps the dict it returned.
cache_clear_loaders_only(c) == [c EXCEPT !.load_csv = <<>>]

\* st.cache_data.clear(): every memoised result of every cached function.
cache_clear(c) == EmptyCache

(***************************************************************************)
(* urgency_label                                                           *)
(***************************************************************************)
UpperCase == <<"A", "B", "C", "D", "E", "F", "G", "H", "I", "J", "K", "L", "M",
               "N", "O", "P", "Q", "R", "S", "T", "U", "V", "W", "X", "Y", "Z">>

LowerCase == <<"a", "b", "c", "d", "e", "f", "g", "h", "i", "j", "k", "l", "m",
               "n", "o", "p", "q", "r", "s", "t", "u", "v", "w", "x", "y", "z">>

Digits == <<"0", "1", "2", "3", "4", "5", "6", "7", "8", "9">>

RECURSIVE Decimal(_)
Decimal(n) ==
    IF n < 10 THEN <<Digits[n + 1]>> ELSE Decimal(n \div 10) \o <<Digits[(n % 10) + 1]>>

\* str(val), as its characters.
str(c) ==
    IF "text" \in DOMAIN c THEN c.text
    ELSE IF "num" \in DOMAIN c THEN Decimal(c.num)
    ELSE IF "none" \in DOMAIN c THEN <<"N", "o", "n", "e">>
    ELSE <<"n", "a", "n">>

\* str.lower(), character by character.
lower(cs) ==
    [i \in DOMAIN cs |->
        IF cs[i] \in Range(UpperCase)
          THEN LowerCase[CHOOSE k \in DOMAIN UpperCase : UpperCase[k] = cs[i]]
          ELSE cs[i]]

\* The three labels: the code point of the leading emoji and the word after it.
LabelHigh == [marker |-> 128308, word |-> "High"]
LabelMedium == [marker |-> 128992, word |-> "Medium"]
LabelLow == [marker |-> 128994, word |-> "Low"]

\* urgency_label without .lower()
urgency_label_case_sensitive(v0) ==
    LET v == str(v0)
    IN  IF v = <<"h", "i", "g", "h">> THEN LabelHigh
        ELSE IF v = <<"m", "e", "d", "i", "u", "m">> THEN LabelMedium
        ELSE LabelLow

urgency_label(v0) ==
    LET v == lower(str(v0))
    IN  IF v = <<"h", "i", "g", "h">> THEN LabelHigh
        ELSE IF v = <<"m", "e", "d", "i", "u", "m">> THEN LabelMedium
        ELSE LabelLow

(***************************************************************************)
(* Sidebar filters                                                         *)
(***************************************************************************)
\* all_skus: the sorted union of the sku values of forecast and recommendations.
all_skus(df_forecast, df_reco) ==
    SortCells(ColumnValues(df_forecast, "sku") \cup ColumnValues(df_reco, "sku"))

all_suppliers(df_reco) == SortCells(ColumnValues(df_reco, "supplier"))

\* The Timestamps of the forecast's date column, NaT dropped.
ForecastDates(df_forecast) ==
    {to_datetime(c).ts : c \in ColumnValues(df_forecast, "date")}

\* date_range = None
NoDateRange == [given |-> FALSE, dates |-> <<>>]

\* What st.sidebar.date_input can return for a range: the dates picked so far,
\* none, the start alone, or start and end.
DateInputs ==
    {[given |-> TRUE, dates |-> <<>>]}
    \cup {[given |-> TRUE, dates |-> <<a>>] : a \in Days}
    \cup {[given |-> TRUE, dates |-> <<a, b>>] : a, b \in Days}

\* sidebar_filters: every (selected_skus, selected_suppliers, date_range) the
\* widgets can hand back for these two tables.  A multiselect returns a subset of
\* its options; the date input exists only when the forecast has a date.
sidebar_filters(df_forecast, df_reco) ==
    {[skus |-> sk, suppliers |-> su, date_range |-> dr] :
        sk \in SUBSET Range(all_skus(df_forecast, df_reco)),
        su \in SUBSET Range(all_suppliers(df_reco)),
        dr \in IF ForecastDates(df_forecast) = {} THEN {NoDateRange} ELSE DateInputs}

\* The selection of a run that has not reached sidebar_filters.
NoSelection == [skus |-> {}, suppliers |-> {}, date_range |-> NoDateRange]

(***************************************************************************)
(* Pages.  A page yields the set of its possible outcomes, each the screen *)
(* it drew and the dict `data` as the page leaves it.                      *)
(***************************************************************************)
Pages == <<"Home", "KPI Dashboard", "Forecasting", "Recommendations", "Download">>

\* Nothing drawn yet.
Blank(p) ==
    [page |-> p, error |-> "", info |-> <<>>, cards |-> <<>>, charts |-> <<>>,
     tables |-> <<>>, downloads |-> <<>>]

Raise(scr, e) == [scr EXCEPT !.error = e]

\* .head(10) of both top-10 charts.
TopN == 10

page_home(d) == {[screen |-> Blank("Home"), data |-> d]}

KpiColumns == <<"total_sales", "avg_inventory_per_sku", "stockout_risk_pct",
                "avg_lead_time_days", "avg_delivery_time_days">>

\* float(df_kpis.get(col, pd.Series([0])).iloc[0]) if not df_kpis.empty else 0.0
kpi_value(df_kpis, col) ==
    IF ~empty(df_kpis)
      THEN IF HasColumn(df_kpis, col) THEN df_kpis.rows[1][col] ELSE Num(0)
      ELSE Num(0)

\* The chain groupby(...).sum().sort_values(..., ascending=False).head(10): its
\* possible results.
top_by_sum(df, key, metric) ==
    {head(p, TopN) : p \in sort_values_desc(groupby_sum(df, key, metric), metric)}

page_kpi_dashboard(d, selected_skus, selected_suppliers) ==
    LET df_kpis == d["kpis"]
        s1 == [Blank("KPI Dashboard") EXCEPT
                 !.cards = [i \in DOMAIN KpiColumns |-> kpi_value(df_kpis, KpiColumns[i])]]
        df_inv0 == d["inventory"]
    IN  IF ~empty(df_inv0)
          THEN IF selected_skus # {} /\ ~HasColumn(df_inv0, "sku")
                 THEN {[screen |-> Raise(s1, "KeyError: sku"), data |-> d]}
               ELSE
                 LET df_inv == IF selected_skus # {}
                                 THEN FilterRows(df_inv0, LAMBDA r : r["sku"] \in selected_skus)
                                 ELSE df_inv0
                 IN  IF ~HasColumn(df_inv, "sku")
                       THEN {[screen |-> Raise(s1, "KeyError: sku"), data |-> d]}
                     ELSE IF ~HasColumn(df_inv, "inventory_qty")
                       THEN {[screen |-> Raise(s1, "KeyError: inventory_qty"), data |-> d]}
                     ELSE {[screen |-> [s1 EXCEPT !.charts = <<top_inv>>], data |-> d] :
                              top_inv \in top_by_sum(df_inv, "sku", "inventory_qty")}
          ELSE {[screen |-> [s1 EXCEPT !.info =
                    <<"No inventory data available. Upload CSVs in the sidebar to see charts.">>],
                 data |-> d]}

\* df_fc["date"] = pd.to_datetime(df_fc["date"]), on the page's own copy.
ConvertDates(df) ==
    [df EXCEPT !.rows = [i \in DOMAIN df.rows |->
        [df.rows[i] EXCEPT !["date"] = to_datetime(df.rows[i]["date"])]]]

\* if date_range and len(date_range) == 2
TwoDates(date_range) == date_range.given /\ Len(date_range.dates) = 2

\* The date filter with its end excluded.
InDateRange_exclusive_end(c, date_range) ==
    /\ "ts" \in DOMAIN c
    /\ c.ts >= date_range.dates[1]
    /\ c.ts < date_range.dates[2]

\* (df_fc["date"] >= start) & (df_fc["date"] <= end); a NaT compares False.
InDateRange(c, date_range) ==
    /\ "ts" \in DOMAIN c
    /\ c.ts >= date_range.dates[1]
    /\ c.ts <= date_range.dates[2]

\* Lines 195-200 on a forecast that has the columns they read: the date
\* conversion, the SKU filter, the date filter.
forecast_filters(df0, selected_skus, date_range) ==
    LET df1 == ConvertDates(df0)
        df2 == IF selected_skus # {}
                 THEN FilterRows(df1, LAMBDA r : r["sku"] \in selected_skus)
                 ELSE df1
    IN  IF TwoDates(date_range)
          THEN FilterRows(df2, LAMBDA r : InDateRange(r["date"], date_range))
          ELSE df2

\* Lines 203-220: px.line(df_fc, x="date", y="forecast_qty", color="sku"), which
\* raises on a name that is no column, then the table sorted by sku and date.
forecast_draw(s0, df_fc) ==
    IF ~HasColumn(df_fc, "forecast_qty") \/ ~HasColumn(df_fc, "sku")
      THEN Raise(s0, "ValueError: not the name of a column")
      ELSE [s0 EXCEPT !.charts = <<df_fc.rows>>,
                      !.tables = <<SortRows(df_fc.rows, <<"sku", "date">>)>>]

\* page_forecasting with the placeholder decided on the filtered table.
page_forecasting_guard_late(d, selected_skus, date_range) ==
    LET s0 == Blank("Forecasting")
        df0 == d["forecast"]
        placeholder == [s0 EXCEPT !.info = <<"No forecast data available.">>]
    IN  IF empty(df0) THEN {[screen |-> placeholder, data |-> d]}
        ELSE IF ~HasColumn(df0, "date")
          THEN {[screen |-> Raise(s0, "KeyError: date"), data |-> d]}
        ELSE IF selected_skus # {} /\ ~HasColumn(df0, "sku")
          THEN {[screen |-> Raise(s0, "KeyError: sku"), data |-> d]}
        ELSE LET df_fc == forecast_filters(df0, selected_skus, date_range)
             IN  IF empty(df_fc) THEN {[screen |-> placeholder, data |-> d]}
                 ELSE {[screen |-> forecast_draw(s0, df_fc), data |-> d]}

\* page_forecasting without .copy(): the date conversion lands in data["forecast"].
page_forecasting_in_place(d, selected_skus, date_range) ==
    LET s0 == Blank("Forecasting")
        df0 == d["forecast"]
    IN  IF empty(df0)
          THEN {[screen |-> [s0 EXCEPT !.info = <<"No forecast data available.">>], data |-> d]}
        ELSE IF ~HasColumn(df0, "date")
          THEN {[screen |-> Raise(s0, "KeyError: date"), data |-> d]}
        ELSE IF selected_skus # {} /\ ~HasColumn(df0, "sku")
          THEN {[screen |-> Raise(s0, "KeyError: sku"),
                 data |-> [d EXCEPT !["forecast"] = ConvertDates(df0)]]}
        ELSE {[screen |-> forecast_draw(s0, forecast_filters(df0, selected_skus, date_range)),
               data |-> [d EXCEPT !["forecast"] = ConvertDates(df0)]]}

page_forecasting(d, selected_skus, date_range) ==
    LET s0 == Blank("Forecasting")
        df0 == d["forecast"]
    IN  IF empty(df0)
          THEN {[screen |-> [s0 EXCEPT !.info = <<"No forecast data available.">>], data |-> d]}
        ELSE IF ~HasColumn(df0, "date")
          THEN {[screen |-> Raise(s0, "KeyError: date"), data |-> d]}
        ELSE IF selected_skus # {} /\ ~HasColumn(df0, "sku")
          THEN {[screen |-> Raise(s0, "KeyError: sku"), data |-> d]}
        ELSE {[screen |-> forecast_draw(s0, forecast_filters(df0, selected_skus, date_range)),
               data |-> d]}

columns_to_show == <<"sku", "current_stock", "reorder_point", "recommended_order_qty",
                     "supplier", "transport_mode", "lead_time_days", "Urgency">>

\* display["Urgency"] = display["urgency"].apply(urgency_label)
WithUrgency(df) ==
    IF HasColumn(df, "urgency")
      THEN [columns |-> Append(df.columns, "Urgency"),
            rows |-> [i \in DOMAIN df.rows |->
                ("Urgency" :> [label |-> urgency_label(df.rows[i]["urgency"])]) @@ df.rows[i]]]
      ELSE df

\* display[[c for c in columns_to_show if c in display.columns]]
Project(df) ==
    LET cols == SelectSeq(columns_to_show, LAMBDA c : HasColumn(df, c))
    IN  [columns |-> cols,
         rows |-> [i \in DOMAIN df.rows |-> [c \in Range(cols) |-> df.rows[i][c]]]]

page_recommendations(d, selected_skus, selected_suppliers) ==
    LET s0 == Blank("Recommendations")
        df0 == d["recommendations"]
    IN  IF empty(df0)
          THEN {[screen |-> [s0 EXCEPT !.info = <<"No recommendation data available.">>],
                 data |-> d]}
        ELSE IF selected_skus # {} /\ ~HasColumn(df0, "sku")
          THEN {[screen |-> Raise(s0, "KeyError: sku"), data |-> d]}
        ELSE IF selected_suppliers # {} /\ ~HasColumn(df0, "supplier")
          THEN {[screen |-> Raise(s0, "KeyError: supplier"), data |-> d]}
        ELSE
          LET df1 == IF selected_skus # {}
                       THEN FilterRows(df0, LAMBDA r : r["sku"] \in selected_skus)
                       ELSE df0
              df_rec == IF selected_suppliers # {}
                          THEN FilterRows(df1, LAMBDA r : r["supplier"] \in selected_suppliers)
                          ELSE df1
              display == Project(WithUrgency(df_rec))
          IN  \* display[columns_to_show].sort_values(["Urgency", "sku"])
              IF ~HasColumn(display, "Urgency")
                THEN {[screen |-> Raise(s0, "KeyError: Urgency"), data |-> d]}
              ELSE IF ~HasColumn(display, "sku")
                THEN {[screen |-> Raise(s0, "KeyError: sku"), data |-> d]}
              ELSE
                LET s1 == [s0 EXCEPT !.tables = <<SortRows(display.rows, <<"Urgency", "sku">>)>>]
                    df_fc == d["forecast"]
                IN  IF empty(df_fc) THEN {[screen |-> s1, data |-> d]}
                    ELSE IF ~HasColumn(df_fc, "sku")
                      THEN {[screen |-> Raise(s1, "KeyError: sku"), data |-> d]}
                    ELSE IF ~HasColumn(df_fc, "forecast_qty")
                      THEN {[screen |-> Raise(s1, "KeyError: forecast_qty"), data |-> d]}
                    ELSE {[screen |-> [s1 EXCEPT !.charts = <<top>>], data |-> d] :
                             top \in top_by_sum(df_fc, "sku", "forecast_qty")}

DownloadKeys == <<"recommendations", "forecast", "kpis">>

page_downloads(d) ==
    LET present == SelectSeq(DownloadKeys, LAMBDA k : ~empty(d[k]))
        missing == SelectSeq(DownloadKeys, LAMBDA k : empty(d[k]))
    IN  {[screen |-> [Blank("Download") EXCEPT
                        !.info = missing,
                        !.downloads = [i \in DOMAIN present |->
                            [file_name |-> present[i], data |-> to_csv(d[present[i]])]]],
          data |-> d]}

\* The router at the end of main.
render(p, d, s) ==
    IF p = "Home" THEN page_home(d)
    ELSE IF p = "KPI Dashboard" THEN page_kpi_dashboard(d, s.skus, s.suppliers)
    ELSE IF p = "Forecasting" THEN page_forecasting(d, s.skus, s.date_range)
    ELSE IF p = "Recommendations" THEN page_recommendations(d, s.skus, s.suppliers)
    ELSE page_downloads(d)

(***************************************************************************)
(* Uploads                                                                 *)
(***************************************************************************)
\* The file names of sidebar_uploaders' mapping, in its order, as dataset names.
UploadSlots == <<"sales", "inventory", "procurement", "logistics", "kpis",
                 "forecast", "recommendations">>

\* st.sidebar.file_uploader returned None.
NoFile == [has |-> FALSE, lines |-> <<>>]

Uploaded(lines) == [has |-> TRUE, lines |-> lines]

\* The bytes written to the slot's file as they come, parsed afterwards.
save_upload_write_first(fs, name, lines) ==
    LET r == read_csv(lines)
    IN  [ok |-> r.ok, error |-> r.error, files |-> [fs EXCEPT ![name] = File(lines)]]

\* One upload, lines 304-307: parse the bytes, then write the DataFrame over the
\* slot's file.  A parse error is raised before anything is written.
save_upload(fs, name, lines) ==
    LET r == read_csv(lines)
    IN  IF r.ok
          THEN [ok |-> TRUE, error |-> "", files |-> [fs EXCEPT ![name] = File(to_csv(r.df))]]
          ELSE [ok |-> FALSE, error |-> r.error, files |-> fs]

\* The loop of sidebar_uploaders from slot i on.  An exception leaves the loop:
\* the slots after it are not reached.
RECURSIVE UploadLoop(_, _, _, _, _)
UploadLoop(fs, c, u, i, st) ==
    IF i > Len(UploadSlots) THEN [ok |-> TRUE, error |-> "", files |-> fs, cache |-> c, status |-> st]
    ELSE LET name == UploadSlots[i]
         IN  IF ~u[name].has THEN UploadLoop(fs, c, u, i + 1, st)
             ELSE LET r == save_upload(fs, name, u[name].lines)
                  IN  IF r.ok
                        THEN UploadLoop(r.files, cache_clear(c), u, i + 1,
                                        [st EXCEPT ![name] = "saved"])
                        ELSE [ok |-> FALSE, error |-> r.error, files |-> r.files, cache |-> c,
                              status |-> [st EXCEPT ![name] = "exception"]]

\* Before the loop: a slot holding a file is pending, the others hold none.
PendingStatus(u) == [n \in NameSet |-> IF u[n].has THEN "not_reached" ELSE "none"]

sidebar_uploaders(fs, c, u) == UploadLoop(fs, c, u, 1, PendingStatus(u))

(***************************************************************************)
(* The script run                                                          *)
(***************************************************************************)
\* main with the uploaders run before the datasets are loaded.
mainSteps_uploads_first == <<"sidebar_uploaders", "get_all_data", "sidebar_filters", "page">>

\* main's calls, in its order; the radio is read with the filters.
mainSteps == <<"get_all_data", "sidebar_filters", "sidebar_uploaders", "page">>

\* `data` before main binds it.
Unbound == <<>>

NoUploads == [n \in NameSet |-> NoFile]

NoStatus == [n \in NameSet |-> "none"]

\* At most this many uploader slots hold a file in one run.
MaxPending == 2

\* At most this many files are offered to the uploaders over a behaviour.
MaxUploads == 2

\* At most this many rows in a table of the page specification.
MaxRows == 2

RECURSIVE SeqsUpTo(_, _)
SeqsUpTo(S, n) ==
    IF n = 0 THEN {<<>>}
    ELSE LET shorter == SeqsUpTo(S, n - 1)
         IN  shorter \cup {Append(q, x) : q \in {t \in shorter : Len(t) = n - 1}, x \in S}

\* The byte streams a user uploads: a forecast as to_csv would write it, an
\* inventory file whose data line stops short, no bytes at all, and a second
\* data line with more fields than the lines before it.
CsvForecast == <<<<"sku", "date", "forecast_qty">>, <<Str("A"), Str("2024-01-01"), Num(1)>>>>
CsvShort == <<<<"sku", "inventory_qty">>, <<Str("A")>>>>
CsvNoBytes == <<>>
CsvRagged ==
    <<<<"sku", "inventory_qty">>, <<Str("A"), Num(1)>>, <<Str("B"), Num(2), Num(3)>>>>

UploadPool == {CsvForecast, CsvShort, CsvNoBytes, CsvRagged}

Offered(u) == Cardinality({n \in NameSet : u[n].has})

\* What the seven uploader widgets can hold in one run.
UploadChoices ==
    UNION {{[n \in NameSet |-> IF n \in S THEN Uploaded(f[n]) ELSE NoFile] :
               f \in [S -> UploadPool]} :
           S \in {T \in SUBSET NameSet : Cardinality(T) <= MaxPending}}

Stepping(name) == pc > 0 /\ mainSteps[pc] = name

\* The call at pc returned: on to the next call, or the run is over.
Advance(name) ==
    /\ pc' = IF pc = Len(mainSteps) THEN 0 ELSE pc + 1
    /\ done' = done \cup {name}

\* An uncaught exception ends the run; Streamlit shows it in place of the rest.
Abort(e) ==
    /\ pc' = 0
    /\ screen' = Raise(screen, e)
    /\ UNCHANGED done

\* A widget interaction or a page load: Streamlit runs the script from the top.
Rerun ==
    /\ pc = 0
    /\ pc' = 1
    /\ done' = {}
    /\ data' = Unbound
    /\ page' = ""
    /\ sel' = NoSelection
    /\ uploads' = NoUploads
    /\ upload_status' = NoStatus
    /\ screen' = Blank("")
    /\ filesAtStart' = files
    /\ UNCHANGED <<files, cache, nUploads, val, label>>

GetAllData ==
    /\ Stepping("get_all_data")
    /\ LET r == get_all_data(cache, files)
       IN  /\ cache' = r.cache
           /\ IF r.ok
                THEN data' = r.dict /\ Advance("get_all_data") /\ UNCHANGED screen
                ELSE Abort(r.error) /\ UNCHANGED data
    /\ UNCHANGED <<files, page, sel, uploads, upload_status, filesAtStart, nUploads, val, label>>

SidebarFilters ==
    /\ Stepping("sidebar_filters")
    /\ IF data = Unbound
         THEN Abort("UnboundLocalError: data") /\ UNCHANGED <<page, sel>>
         ELSE /\ \E p \in Range(Pages) : page' = p
              /\ \E s \in sidebar_filters(data["forecast"], data["recommendations"]) : sel' = s
              /\ Advance("sidebar_filters")
              /\ UNCHANGED screen
    /\ UNCHANGED <<files, cache, data, uploads, upload_status, filesAtStart, nUploads, val, label>>

SidebarUploaders ==
    /\ Stepping("sidebar_uploaders")
    /\ \E u \in UploadChoices :
          /\ nUploads + Offered(u) <= MaxUploads
          /\ LET r == sidebar_uploaders(files, cache, u)
             IN  /\ uploads' = u
                 /\ nUploads' = nUploads + Offered(u)
                 /\ files' = r.files
                 /\ cache' = r.cache
                 /\ upload_status' = r.status
                 /\ IF r.ok THEN Advance("sidebar_uploaders") /\ UNCHANGED screen
                            ELSE Abort(r.error)
    /\ UNCHANGED <<data, page, sel, filesAtStart, val, label>>

Page ==
    /\ Stepping("page")
    /\ IF data = Unbound \/ page = ""
         THEN Abort("UnboundLocalError: data") /\ UNCHANGED data
         ELSE \E r \in render(page, data, sel) :
                 /\ screen' = r.screen
                 /\ data' = r.data
                 /\ Advance("page")
    /\ UNCHANGED <<files, cache, page, sel, uploads, upload_status, filesAtStart, nUploads,
                   val, label>>

Next == Rerun \/ GetAllData \/ SidebarFilters \/ SidebarUploaders \/ Page

\* A fresh checkout: the data directory holds no file and nothing is memoised.
Init ==
    /\ files = [n \in NameSet |-> Absent]
    /\ cache = EmptyCache
    /\ data = Unbound
    /\ pc = 0
    /\ done = {}
    /\ page = ""
    /\ sel = NoSelection
    /\ uploads = NoUploads
    /\ upload_status = NoStatus
    /\ screen = Blank("")
    /\ filesAtStart = [n \in NameSet |-> Absent]
    /\ nUploads = 0
    /\ val = None
    /\ label = [marker |-> 0, word |-> ""]

Spec == Init /\ [][Next]_vars

(***************************************************************************)
(* The pages on richer tables: the same script, started on a data          *)
(* directory that already holds CSV files, with no upload offered.         *)
(***************************************************************************)
D1 == "2024-01-01"
D2 == "2024-01-02"

\* The values a column of the bounded tables takes.
ColumnPool(c) ==
    IF c = "sku" THEN {Str("A"), Str("B")}
    ELSE IF c = "supplier" THEN {Str("S1"), Str("S2")}
    ELSE IF c = "date" THEN {Str(D1), Str(D2)}
    ELSE IF c = "urgency" THEN {Text(<<"H", "i", "g", "h">>), Text(<<"l", "o", "w">>)}
    ELSE IF c = "forecast_qty" THEN {Num(1)}
    ELSE {Num(1), Num(2)}

AllPoolCells ==
    UNION {ColumnPool(c) : c \in {"sku", "supplier", "date", "urgency", "forecast_qty",
                                  "inventory_qty"}}

\* The data lines a file with this header can hold.
LinesOver(cols) ==
    {l \in [DOMAIN cols -> AllPoolCells] : \A j \in DOMAIN cols : l[j] \in ColumnPool(cols[j])}

\* The files with this header and at most MaxRows data lines out of `lines`.
CsvFilesFrom(cols, lines) == {File(<<cols>> \o body) : body \in SeqsUpTo(lines, MaxRows)}

CsvFiles(cols) == CsvFilesFrom(cols, LinesOver(cols))

NoFiles == [n \in NameSet |-> Absent]

\* A forecast of two SKUs on two days, and recommendations for them.
ForecastSample ==
    File(<<<<"sku", "date", "forecast_qty">>,
           <<Str("A"), Str(D1), Num(1)>>, <<Str("B"), Str(D2), Num(1)>>>>)

RecoSample ==
    File(<<<<"sku", "supplier", "urgency">>,
           <<Str("A"), Str("S1"), Text(<<"H", "i", "g", "h">>)>>,
           <<Str("B"), Str("S2"), Text(<<"l", "o", "w">>)>>>>)

\* forecast.csv alone, with its schema or with one column missing.
ForecastFiles ==
    UNION {CsvFiles(cols) : cols \in {<<"sku", "date", "forecast_qty">>,
                                      <<"date", "forecast_qty">>,
                                      <<"sku", "forecast_qty">>,
                                      <<"sku", "date">>}}

\* recommendations.csv alone, likewise.
RecoFiles ==
    UNION {CsvFiles(cols) : cols \in {<<"sku", "supplier", "urgency">>,
                                      <<"supplier", "urgency">>,
                                      <<"sku", "urgency">>,
                                      <<"sku", "supplier">>}}

\* recommendations.csv beside a forecast: without sku, and with a date column
\* of its own.
RecoBesideForecast ==
    CsvFilesFrom(<<"supplier", "urgency">>,
                 {<<Str("S1"), Text(<<"H", "i", "g", "h">>)>>})
    \cup CsvFilesFrom(<<"sku", "supplier", "urgency", "date">>,
                      {<<Str("A"), Str("S1"), Text(<<"H", "i", "g", "h">>), Str(D1)>>,
                       <<Str("B"), Str("S2"), Text(<<"l", "o", "w">>), Str(D2)>>})

InventoryFiles ==
    UNION {CsvFiles(cols) : cols \in {<<"sku", "inventory_qty">>, <<"sku">>,
                                      <<"inventory_qty">>}}

\* kpis.csv: absent, the snapshot row, a snapshot short of three columns.
KpiFiles ==
    {Absent,
     File(<<KpiColumns, <<Num(5), Num(4), Num(3), Num(2), Num(1)>>>>),
     File(<<<<"total_sales", "stockout_risk_pct">>, <<Num(5), Num(3)>>>>)}

FilesUniverse ==
    {[NoFiles EXCEPT !["forecast"] = f] : f \in ForecastFiles}
    \cup {[NoFiles EXCEPT !["recommendations"] = r] : r \in RecoFiles}
    \cup {[NoFiles EXCEPT !["forecast"] = ForecastSample, !["recommendations"] = r] :
             r \in RecoBesideForecast}
    \cup {[NoFiles EXCEPT !["recommendations"] = RecoSample, !["kpis"] = k,
                          !["inventory"] = i] : k \in KpiFiles, i \in InventoryFiles}

InitView ==
    /\ files \in FilesUniverse
    /\ cache = EmptyCache
    /\ data = Unbound
    /\ pc = 0
    /\ done = {}
    /\ page = ""
    /\ sel = NoSelection
    /\ uploads = NoUploads
    /\ upload_status = NoStatus
    /\ screen = Blank("")
    /\ filesAtStart = files
    /\ nUploads = MaxUploads
    /\ val = None
    /\ label = [marker |-> 0, word |-> ""]

SpecView == InitView /\ [][Next]_vars

(***************************************************************************)
(* urgency_label on its own                                                *)
(***************************************************************************)
\* The spellings of a lower-case word with any of its letters in upper case.
Casings(word) ==
    {[i \in DOMAIN word |->
        IF i \in S THEN UpperCase[CHOOSE k \in DOMAIN LowerCase : LowerCase[k] = word[i]]
        ELSE word[i]] : S \in SUBSET DOMAIN word}

High == <<"h", "i", "g", "h">>
Medium == <<"m", "e", "d", "i", "u", "m">>

LabelInputs ==
    {Text(cs) : cs \in Casings(High) \cup Casings(Medium)}
    \cup {Text(<<"u", "n", "k", "n", "o", "w", "n">>), Text(<<"l", "o", "w">>),
          Text(<<"L", "O", "W">>), Text(<<>>), Text(<<"h", "i", "g", "h", "s">>),
          Text(<<" ", "h", "i", "g", "h">>), Text(<<"m", "e", "d">>),
          None, NaN, Num(1), Num(10)}

\* No label computed yet.
Unlabelled == [marker |-> 0, word |-> ""]

InitLabel ==
    /\ files = NoFiles
    /\ cache = EmptyCache
    /\ data = Unbound
    /\ pc = 0
    /\ done = {}
    /\ page = ""
    /\ sel = NoSelection
    /\ uploads = NoUploads
    /\ upload_status = NoStatus
    /\ screen = Blank("")
    /\ filesAtStart = NoFiles
    /\ nUploads = 0
    /\ val \in LabelInputs
    /\ label = Unlabelled

ApplyLabel ==
    /\ label = Unlabelled
    /\ label' = urgency_label(val)
    /\ UNCHANGED <<files, cache, data, pc, done, page, sel, uploads, upload_status, screen,
                   filesAtStart, nUploads, val>>

SpecLabel == InitLabel /\ [][ApplyLabel]_vars

(***************************************************************************)
(* Properties                                                              *)
(***************************************************************************)
\* The tables the files hold, read without any memo.
Stored(fs) ==
    [n \in NameSet |-> IF fs[n].exists THEN read_csv(fs[n].lines).df
                       ELSE [columns |-> <<>>, rows |-> <<>>]]

Loaded == "get_all_data" \in done

\* The run drew its page to the end.
Drew(p) == "page" \in done /\ page = p /\ screen.error = ""

IsEmpty(df) == Len(df.columns) = 0 \/ Len(df.rows) = 0

\* C1: a load returns, for every one of the seven datasets, the table its file
\* holds when the load runs: after an upload was saved, no load hands back a
\* table memoised before it.  (Between the load and the uploaders of one run
\* the files are those the load saw.)
C1_LoadReflectsStorage ==
    (pc # 0 /\ Loaded /\ "sidebar_uploaders" \notin done) => data = Stored(files)

\* C1's case: a run after an upload was saved (the store started with no file)
\* has loaded the uploaded table.
C1_Witness ==
    /\ pc # 0
    /\ Loaded
    /\ "sidebar_uploaders" \notin done
    /\ \E n \in NameSet : files[n].exists /\ ~IsEmpty(data[n]) /\ data[n] = Stored(files)[n]

\* The uploads of the pool that pd.read_csv cannot parse.
MalformedBytes == {CsvNoBytes, CsvRagged}

\* C2: an upload of unparseable bytes, to any slot, leaves the slot's file as it
\* was when the run began and is never reported as saved: the run has ended in
\* the parse error (of this slot, or of an earlier one before this was reached).
C2_MalformedUploadRejected ==
    \A n \in NameSet :
        (uploads[n].has /\ uploads[n].lines \in MalformedBytes) =>
            /\ files[n] = filesAtStart[n]
            /\ upload_status[n] \in {"exception", "not_reached"}
            /\ screen.error \in {"EmptyDataError", "ParserError"}
            /\ pc = 0
            /\ "sidebar_uploaders" \notin done

\* C2's case: unparseable bytes were offered for a slot whose file exists; the
\* upload raised.
C2_Witness ==
    \E n \in NameSet :
        /\ uploads[n].has
        /\ uploads[n].lines \in MalformedBytes
        /\ upload_status[n] = "exception"
        /\ filesAtStart[n].exists
        /\ files[n] = filesAtStart[n]

\* C3: a dataset whose file does not exist is loaded as the empty table, the
\* dict get_all_data returns has all seven names, and the load raises nothing
\* (a run shows an error only after its load has returned).
C3_MissingFileLoadsEmpty ==
    /\ Loaded =>
          /\ DOMAIN data = NameSet
          /\ \A n \in NameSet :
                ~filesAtStart[n].exists => data[n] = [columns |-> <<>>, rows |-> <<>>]
    /\ screen.error # "" => Loaded

\* C3's case: a load with no file at all in the data directory.
C3_Witness ==
    /\ Loaded
    /\ \A n \in NameSet : ~filesAtStart[n].exists
    /\ \A n \in NameSet : n \in DOMAIN data /\ IsEmpty(data[n])

\* C10: the page of a run is drawn from the tables loaded before the run's
\* uploaders ran: the files as they were when the run began, whatever the
\* uploaders saved since.
C10_PageDrawnFromPreUploadTables ==
    "page" \in done =>
        /\ data = Stored(filesAtStart)
        /\ \E r \in render(page, Stored(filesAtStart), sel) : screen = r.screen

\* C10's case: the run saved an upload and then drew its page from a table
\* that is no longer the one in the file.
C10_Witness ==
    /\ "page" \in done
    /\ \E n \in NameSet : upload_status[n] = "saved" /\ data[n] # Stored(files)[n]

\* C8: the page step of a run, whatever the page and the selection, leaves the
\* loaded datasets, the files and the memo as they were.
C8_RenderLeavesDataUnchanged ==
    [][Stepping("page") => (data' = data /\ files' = files /\ cache' = cache)]_vars

\* C8's case: the Forecasting page drew a chart whose dates are Timestamps while
\* the loaded forecast still holds the strings read from the file.
C8_Witness ==
    /\ Drew("Forecasting")
    /\ Len(screen.charts) = 1
    /\ \E i \in DOMAIN screen.charts[1] : "ts" \in DOMAIN screen.charts[1][i]["date"]
    /\ \E i \in DOMAIN data["forecast"].rows : "str" \in DOMAIN data["forecast"].rows[i]["date"]

\* The filter as the claim words it, for a table with these columns: each
\* condition applies when the table has the column.
KeepAsClaimed(df, r) ==
    /\ sel.skus = {} \/ r["sku"] \in sel.skus
    /\ HasColumn(df, "supplier") => (sel.suppliers = {} \/ r["supplier"] \in sel.suppliers)
    /\ HasColumn(df, "date") =>
          \/ ~(sel.date_range.given /\ Len(sel.date_range.dates) = 2)
          \/ /\ to_datetime(r["date"]).ts >= sel.date_range.dates[1]
             /\ to_datetime(r["date"]).ts <= sel.date_range.dates[2]

\* The rows of the recommendations table as the page shows them, for the rows
\* the filter kept.
ShownRecommendations(df, Keep(_, _)) ==
    SortRows(Project(WithUrgency([df EXCEPT !.rows = SelectSeq(df.rows, LAMBDA r : Keep(df, r))])).rows,
             <<"Urgency", "sku">>)

\* C4 as claimed: on both filtering pages the rows kept are those that pass the
\* SKU selection, the supplier selection if the table has a supplier column and
\* the date range if the table has a date column.
C4_FilterAsClaimed ==
    /\ (Drew("Forecasting") /\ Len(screen.charts) = 1) =>
          screen.charts[1] =
              SelectSeq(ConvertDates(data["forecast"]).rows,
                        LAMBDA r : KeepAsClaimed(data["forecast"], r))
    /\ (Drew("Recommendations") /\ Len(screen.tables) = 1) =>
          screen.tables[1] = ShownRecommendations(data["recommendations"], KeepAsClaimed)

\* What the Forecasting page keeps: the SKU selection and the date range.
KeepForecast(df, r) ==
    /\ sel.skus = {} \/ r["sku"] \in sel.skus
    /\ \/ ~(sel.date_range.given /\ Len(sel.date_range.dates) = 2)
       \/ /\ "ts" \in DOMAIN r["date"]
          /\ r["date"].ts >= sel.date_range.dates[1]
          /\ r["date"].ts <= sel.date_range.dates[2]

\* What the Recommendations page keeps: the SKU and the supplier selections.
KeepRecommendation(df, r) ==
    /\ sel.skus = {} \/ r["sku"] \in sel.skus
    /\ sel.suppliers = {} \/ r["supplier"] \in sel.suppliers

\* C4 amended: the Forecasting page keeps a forecast row iff it passes the SKU
\* selection and the date range (start and end included), in the rows' order;
\* the Recommendations page keeps a row iff it passes the SKU and the supplier
\* selections.  The supplier selection never filters the forecast and the date
\* range never filters the recommendations, whatever columns they have.
C4_FilterPerPage ==
    /\ (Drew("Forecasting") /\ Len(screen.charts) = 1) =>
          screen.charts[1] =
              SelectSeq(ConvertDates(data["forecast"]).rows,
                        LAMBDA r : KeepForecast(data["forecast"], r))
    /\ (Drew("Recommendations") /\ Len(screen.tables) = 1) =>
          screen.tables[1] = ShownRecommendations(data["recommendations"], KeepRecommendation)

\* C4's case: the Forecasting page, with SKUs selected and a date range of two
\* dates, kept some rows of the forecast and dropped others.
C4_Witness ==
    /\ Drew("Forecasting")
    /\ Len(screen.charts) = 1
    /\ sel.skus # {}
    /\ Len(sel.date_range.dates) = 2
    /\ Len(screen.charts[1]) > 0
    /\ Len(screen.charts[1]) < Len(data["forecast"].rows)

\* C5: a run that reached its page on loaded data drew it without an error: no
\* missing column makes the render fail.
C5_MissingColumnNeverFails ==
    (Loaded /\ "sidebar_uploaders" \in done /\ pc = 0) => screen.error = ""

\* The groups of the inventory chart: the SKUs of the rows the selection keeps.
InventoryRows ==
    SelectSeq(data["inventory"].rows, LAMBDA r : sel.skus = {} \/ r["sku"] \in sel.skus)

InventorySum(k) ==
    SumNums([i \in DOMAIN SelectSeq(InventoryRows, LAMBDA r : r["sku"] = k) |->
                SelectSeq(InventoryRows, LAMBDA r : r["sku"] = k)[i]["inventory_qty"]])

\* C6: the inventory chart of the KPI page holds one row per SKU with the sum of
\* its inventory_qty, by descending sum, ties by ascending SKU, cut to the first
\* ten.
C6_TopNOrder ==
    (Drew("KPI Dashboard") /\ Len(screen.charts) = 1) =>
        LET top == screen.charts[1]
            groups == {InventoryRows[i]["sku"] : i \in DOMAIN InventoryRows}
        IN  /\ Len(top) = (IF Cardinality(groups) < 10 THEN Cardinality(groups) ELSE 10)
            /\ \A i \in DOMAIN top : top[i]["inventory_qty"] = Num(InventorySum(top[i]["sku"]))
            /\ \A i, j \in DOMAIN top :
                  i < j =>
                     \/ top[i]["inventory_qty"].num > top[j]["inventory_qty"].num
                     \/ /\ top[i]["inventory_qty"].num = top[j]["inventory_qty"].num
                        /\ Ord(top[i]["sku"].str) < Ord(top[j]["sku"].str)

\* C9 as claimed: no page draws a chart or a table of no rows, whether the
\* dataset was loaded empty or the filters emptied it; the placeholder is shown
\* in its place.
C9_NoEmptyRender ==
    /\ \A p \in {"KPI Dashboard", "Forecasting", "Recommendations"} :
          Drew(p) =>
              /\ \A i \in DOMAIN screen.charts : screen.charts[i] # <<>>
              /\ \A i \in DOMAIN screen.tables : screen.tables[i] # <<>>
    /\ (Drew("Forecasting") /\ IsEmpty(data["forecast"])) => screen.info # <<>>
    /\ (Drew("Recommendations") /\ IsEmpty(data["recommendations"])) => screen.info # <<>>
    /\ (Drew("KPI Dashboard") /\ IsEmpty(data["inventory"])) => screen.info # <<>>

\* C9 amended: each page decides on the dataset as loaded, before any filter.
\* An empty forecast, recommendations or inventory table gives the page's fixed
\* placeholder and no chart or table; a table that is not empty is drawn, rows
\* or no rows left after the filters, and no placeholder is shown.
C9_GuardOnLoadedTable ==
    /\ ("page" \in done /\ page = "Forecasting") =>
          IF IsEmpty(data["forecast"])
            THEN /\ screen.info = <<"No forecast data available.">>
                 /\ screen.charts = <<>> /\ screen.tables = <<>> /\ screen.error = ""
            ELSE /\ screen.info = <<>>
                 /\ screen.error = "" => Len(screen.charts) = 1 /\ Len(screen.tables) = 1
    /\ ("page" \in done /\ page = "Recommendations") =>
          IF IsEmpty(data["recommendations"])
            THEN /\ screen.info = <<"No recommendation data available.">>
                 /\ screen.charts = <<>> /\ screen.tables = <<>> /\ screen.error = ""
            ELSE /\ screen.info = <<>>
                 /\ screen.error = "" => Len(screen.tables) = 1
    /\ ("page" \in done /\ page = "KPI Dashboard") =>
          IF IsEmpty(data["inventory"])
            THEN /\ screen.info =
                       <<"No inventory data available. Upload CSVs in the sidebar to see charts.">>
                 /\ screen.charts = <<>> /\ screen.error = ""
            ELSE /\ screen.info = <<>>
                 /\ screen.error = "" => Len(screen.charts) = 1

\* C9's case: the forecast is not empty, the filters left no row, and the page
\* drew the chart and the table with no rows and no placeholder.
C9_Witness ==
    /\ Drew("Forecasting")
    /\ ~IsEmpty(data["forecast"])
    /\ screen.charts = <<<<>>>>
    /\ screen.tables = <<<<>>>>
    /\ screen.info = <<>>

\* C7: every casing of "high" gets the high-urgency label, every casing of
\* "medium" the medium-urgency label, and any other value, None included, the
\* low-urgency label.
C7_UrgencyLabel ==
    label # Unlabelled =>
        IF val \in {Text(cs) : cs \in Casings(High)}
          THEN label = [marker |-> 128308, word |-> "High"]
        ELSE IF val \in {Text(cs) : cs \in Casings(Medium)}
          THEN label = [marker |-> 128992, word |-> "Medium"]
        ELSE label = [marker |-> 128994, word |-> "Low"]

\* C7's case: "HIGH" was labelled.
C7_Witness ==
    /\ val = Text(<<"H", "I", "G", "H">>)
    /\ label = [marker |-> 128308, word |-> "High"]

====
